---- MODULE Spec2Model ----
(***************************************************************************)
(* The KC-RPMD routines of nHamiltonian (nHamiltonian_compute_KCRPMD.cpp): *)
(* generate_m_matrices, kcrpmd_effective_potential,                        *)
(* kcrpmd_effective_force and kcrpmd_effective_auxiliary_force.            *)
(*                                                                         *)
(* Numbers.  A double is an integer count of a fixed unit:                 *)
(*   couplings (K, ham_dia(0,1), beta*K)      in units of 1e-4  (KOne=1.0) *)
(*   energies  (V0, V1, VKP, Vshift)          in units of 1e-8  (VOne=1.0) *)
(*   the auxiliary coordinate y               in quarters       (YOne=1.0) *)
(* beta, c and d are whole numbers.  Rounding of the floating-point        *)
(* operations is not modelled.  exp() is computed on its argument rounded  *)
(* to the nearest whole number, to four decimals (ExpTable).  The values   *)
(* of the other transcendental expressions (the log/sinh/tanh/sqrt         *)
(* formulas of VKP, the kinetic constraint and the soft-gate penalties)    *)
(* are not computed: a call receives them as the record fp, any            *)
(* combination of the values in FpVals, and they count as part of the      *)
(* call's inputs since they are functions of them.                         *)
(*                                                                         *)
(* Matrix elements of ham_dia and d1ham_dia are modelled by their real     *)
(* parts (the off-diagonal element is taken real, so abs() of it is the    *)
(* absolute value of that real number).                                    *)
(***************************************************************************)
EXTENDS Integers, Sequences, FiniteSets

VARIABLES
  ham,         \* the nHamiltonian object the methods are called on
  y_aux_var,   \* the caller's auxiliary coordinate vector (length 1)
  call         \* the most recent call: what it read, decided and produced

vars == <<ham, y_aux_var, call>>

-----------------------------------------------------------------------------
(* Bounds of the enumeration *)

MaxChildren == 2   \* children.size() ranges over 0..MaxChildren
MaxTraj == 2       \* q.n_cols ranges over 0..MaxTraj
MaxDof == 1        \* q.n_rows ranges over 1..MaxDof; every bead has MaxDof derivative matrices

-----------------------------------------------------------------------------
(* Units and the literals of the source *)

KOne == 10000          \* the literal 1 of "beta * K - 1", in coupling units
VOne == 10000 * KOne   \* 1.0 in energy units
YOne == 4              \* the literal 1 of "y_aux_var[0] + 1", in y units
YHalf == YOne \div 2   \* the literal 0.5
Thr1e3 == 10           \* the literal 1e-3, in coupling units
Thr1e7 == 10           \* the literal 1e-7, in energy units
Limit250 == 250        \* the literal 250.

Abs(x) == IF x < 0 THEN -x ELSE x

RECURSIVE GCD(_, _)
GCD(a, b) == IF b = 0 THEN a ELSE GCD(b, a % b)

\* A rational n/d in lowest terms, d > 0.
Rat(n, d) ==
  LET g == GCD(Abs(n), d)
  IN  [n |-> n \div g, d |-> d \div g]

RatNeg(r) == [n |-> -(r.n), d |-> r.d]
RatDivInt(r, k) == Rat(r.n, r.d * k)
RatMulInt(r, k) == Rat(r.n * k, r.d)

\* exp(n) for whole n in -10..10, times 10000 and rounded.
ExpTable ==
  << 0, 1, 3, 9, 25, 67, 183, 498, 1353, 3679,
     10000,
     27183, 73891, 200855, 545982, 1484132, 4034288, 10966332, 29809580,
     81030839, 220264658 >>

\* exp(x) of an energy-unit argument x (already multiplied by beta).
Exp(x) ==
  LET n == (x + VOne \div 2) \div VOne
  IN  IF n < -10 THEN 0
      ELSE IF n > 10 THEN ExpTable[21]
      ELSE ExpTable[n + 11]

-----------------------------------------------------------------------------
(* The Hamiltonian objects *)

\* A 2x2 diabatic matrix: h00, h11 in energy units, h01 in coupling units.
Dia(h00, h11, h01) == [h00 |-> h00, h11 |-> h11, h01 |-> h01]

\* The derivative matrices of a bead with off-diagonal slope s: one per dof.
D1(s) == [dof \in 1..MaxDof |-> [d00 |-> dof, d11 |-> -dof, d01 |-> s * dof]]

\* A child nHamiltonian (one bead).  With a status of 0 the pointer does not
\* refer to a matrix of the object; ham_dia / d1ham_dia then stand for whatever
\* a read through it finds.
Bead(st, dia, d1st, s) ==
  [ham_dia_mem_status |-> st, ham_dia |-> dia,
   d1ham_dia_mem_status |-> d1st, d1ham_dia |-> D1(s)]

Couplings == {-5000, 0, 10, 5000}
Diagonals == {<<VOne, 2 * VOne>>, <<0, 5>>}
Slopes == {-2, 3}

AllocatedBeads ==
  {Bead(1, Dia(v[1], v[2], k), 1, s) : v \in Diagonals, k \in Couplings, s \in Slopes}

FirstBeads ==
  AllocatedBeads \cup {Bead(1, Dia(VOne, 2 * VOne, 5000), 0, 3),
                       Bead(0, Dia(0, 5, 10), 0, 3)}

OtherBeads ==
  {Bead(1, Dia(0, VOne, -5000), 1, 3), Bead(1, Dia(VOne, 2 * VOne, 10), 1, -2),
   Bead(0, Dia(0, 5, 10), 0, 3)}

RECURSIVE ChildSeqs(_)
ChildSeqs(n) ==
  IF n = 0 THEN {<<>>}
  ELSE IF n = 1 THEN {<<b>> : b \in FirstBeads}
  ELSE {Append(s, b) : s \in ChildSeqs(n - 1), b \in OtherBeads}

Hamiltonians ==
  {[ham_dia_mem_status |-> st, ndia |-> nd, ham_dia |-> dia, children |-> ch] :
     st \in {0, 1}, nd \in {2, 3},
     dia \in {Dia(VOne, 2 * VOne, 5000), Dia(0, 5, -10)},
     ch \in UNION {ChildSeqs(n) : n \in 0..MaxChildren}}

Ys == {-YOne, 0, YOne + YHalf}

Betas == {-1, 1, 2}

\* What identifies a matrix a call touches: owner 0 is the object itself,
\* owner i > 0 is children[i-1]; dof 0 is ham_dia, dof k > 0 is d1ham_dia[k-1].
Obj(owner, dof) == [owner |-> owner, dof |-> dof]

-----------------------------------------------------------------------------
(* The record of a call *)

Msg(names, says) == [names |-> names, says |-> says]

NoFp == [g0 |-> 0, g1 |-> 0, vkp |-> 0]
NoMix == [fin |-> FALSE, V |-> <<0, 0, 0>>, Vshift |-> 0, x |-> <<0, 0, 0>>, e |-> <<0, 0, 0>>, Z |-> 0]
NoAux == <<>>

NoCall ==
  [routine |-> "none", outcome |-> "none", msg |-> Msg("", ""),
   n_rows |-> 0, n_cols |-> 0, beta |-> 0, c |-> 0, d |-> 0, fp |-> NoFp,
   tested |-> {}, reads |-> {},
   V0 |-> 0, V1 |-> 0, K |-> 0,
   regimeVKP |-> "none", regimeFKP |-> "none",
   F0 |-> <<>>, F1 |-> <<>>, FK |-> <<>>,
   FAupdated |-> FALSE, FCdirect |-> FALSE, coshArgs |-> {},
   gate |-> <<>>, aux |-> NoAux, mix |-> NoMix, M |-> <<>>]

\* exit(0) after printing msg: nothing is returned.
Exit(routine, n_cols, tested, msg) ==
  [NoCall EXCEPT !.routine = routine, !.outcome = "exit", !.msg = msg,
                 !.n_cols = n_cols, !.tested = tested]

\* The call died in a read through a pointer that refers to no matrix.
Crash(routine, n_cols, tested, reads) ==
  [NoCall EXCEPT !.routine = routine, !.outcome = "crash",
                 !.n_cols = n_cols, !.tested = tested, !.reads = reads]

\* What a read of ham_dia / d1ham_dia can do: with the matrix allocated it
\* yields the element; otherwise the behaviour is undefined, and the call
\* either dies or goes on with whatever the read found.
ReadOutcomes(allocated) == IF allocated THEN {"value"} ELSE {"value", "crash"}

-----------------------------------------------------------------------------
(* generate_m_matrices *)

\* One M matrix, each entry coef * exp(arg): coef a rational in coupling
\* units, arg a rational in energy units.  bn is -beta or -beta/children.size().
MMatrix(bn, dia) ==
  LET V0 == dia.h00
      V1 == dia.h11
      K == Abs(dia.h01)
      one == Rat(KOne, 1)
  IN  [m00 |-> [coef |-> one, arg |-> RatMulInt(bn, V0)],
       m01 |-> [coef |-> RatMulInt(bn, K), arg |-> RatMulInt(bn, V0)],
       m10 |-> [coef |-> RatMulInt(bn, K), arg |-> RatMulInt(bn, V1)],
       m11 |-> [coef |-> one, arg |-> RatMulInt(bn, V1)]]

\* MinusBetaN without the division by the number of children.
MinusBetaN_Undivided(beta, size) == Rat(-beta, 1)

\* -beta for the object itself, -beta / children.size() for a child.
MinusBetaN(beta, size) ==
  IF size = 0 THEN Rat(-beta, 1) ELSE RatDivInt(Rat(-beta, 1), size)

generate_m_matrices ==
  LET size == Len(ham.children)
      tested == {Obj(0, 0)}
      reads == IF size = 0 THEN {Obj(0, 0)} ELSE {Obj(i, 0) : i \in 1..size}
      allocated == \A i \in 1..size : ham.children[i].ham_dia_mem_status # 0
  IN
  /\ \/ /\ ham.ham_dia_mem_status = 0
        /\ call' = Exit("generate_m_matrices", 0, tested,
                        Msg("generate_m_matrices", "not_allocated"))
     \/ /\ ham.ham_dia_mem_status # 0
        /\ ham.ndia # 2
        /\ call' = Exit("generate_m_matrices", 0, tested,
                        Msg("generate_m_matrices", "ndia"))
     \/ /\ ham.ham_dia_mem_status # 0
        /\ ham.ndia = 2
        /\ \E beta \in Betas, o \in ReadOutcomes(allocated) :
             call' =
               IF o = "crash" THEN Crash("generate_m_matrices", 0, tested, reads)
               ELSE LET bn == MinusBetaN(beta, size) IN
                    [NoCall EXCEPT
                       !.routine = "generate_m_matrices", !.outcome = "returned",
                       !.beta = beta, !.tested = tested, !.reads = reads,
                       !.M = IF size = 0 THEN <<MMatrix(bn, ham.ham_dia)>>
                             ELSE [traj \in 1..size |->
                                     MMatrix(bn, ham.children[traj].ham_dia)]]
  /\ UNCHANGED <<ham, y_aux_var>>

-----------------------------------------------------------------------------
(* What the three effective routines share *)

\* ClassicalPath with the children count only bounded from below.
ClassicalPath_AnyChildren(size, ntraj) == size >= 1 /\ ntraj = 1

\* if(children.size()==1 and ntraj==1): the implemented, classical-nuclei path.
ClassicalPath(size, ntraj) == size = 1 /\ ntraj = 1

\* else if(children.size()==ntraj)
QuantumPath(size, ntraj) == size = ntraj

\* if(ntraj==1) of the auxiliary force, where ntraj = children.size().
AuxClassicalPath(ntraj) == ntraj = 1

\* The regime of VKP in kcrpmd_effective_potential.
RegimeVKP_potential(beta, V0, V1, K) ==
  IF beta * K > Thr1e3 THEN "adiabatic"
  ELSE IF beta * Abs(V0 - V1) > Thr1e7 THEN "sinh"
  ELSE "degenerate"

\* The regime of VKP in kcrpmd_effective_force.
RegimeVKP_force(beta, V0, V1, K) ==
  IF beta * K > Thr1e3 THEN "adiabatic"
  ELSE IF beta * Abs(V0 - V1) > Thr1e7 THEN "sinh"
  ELSE "degenerate"

\* RegimeFKP_force with the first comparison drifted from > to >=.
RegimeFKP_force_Drifted(beta, V0, V1, K) ==
  IF beta * K >= Thr1e3 THEN "adiabatic"
  ELSE IF beta * Abs(V0 - V1) > Thr1e7 THEN "sinh"
  ELSE "degenerate"

\* The regime of FKP in kcrpmd_effective_force.
RegimeFKP_force(beta, V0, V1, K) ==
  IF beta * K > Thr1e3 THEN "adiabatic"
  ELSE IF beta * Abs(V0 - V1) > Thr1e7 THEN "sinh"
  ELSE "degenerate"

\* The regime of VKP in kcrpmd_effective_auxiliary_force.
RegimeVKP_auxiliary(beta, V0, V1, K) ==
  IF beta * K > Thr1e3 THEN "adiabatic"
  ELSE IF beta * Abs(V0 - V1) > Thr1e7 THEN "sinh"
  ELSE "degenerate"

\* VKP after the kinetic constraint and its soft gate.  With K = 0 the
\* formulas take log(0) and divide by K, so VKP is infinite or NaN; otherwise
\* it is the value fp carries.
FinalVKP(K, fp) == [fin |-> K # 0, v |-> fp.vkp]

\* Which branch of the soft-gate penalty a surface centred at m takes:
\* if(abs(y_aux_var[0] - m) < 0.5).
GateBranch(y, m) == IF Abs(y - m) < YHalf THEN "inside" ELSE "outside"

Gates(y) == <<GateBranch(y, -YOne), GateBranch(y, 0), GateBranch(y, YOne)>>

\* double Vshift = min({V0, VKP, V1}); of kcrpmd_effective_potential.
Vshift_potential(V0, VKP, V1) ==
  LET m == IF VKP < V0 THEN VKP ELSE V0
  IN  IF V1 < m THEN V1 ELSE m

\* Vshift_force with VKP left out of the minimum.
Vshift_force_WithoutVKP(V0, VKP, V1) == IF V1 < V0 THEN V1 ELSE V0

\* double Vshift = min({V0, VKP, V1}); of kcrpmd_effective_force.
Vshift_force(V0, VKP, V1) ==
  LET m == IF VKP < V0 THEN VKP ELSE V0
  IN  IF V1 < m THEN V1 ELSE m

\* double Vshift = min({V0, VKP, V1}); of kcrpmd_effective_auxiliary_force.
Vshift_auxiliary(V0, VKP, V1) ==
  LET m == IF VKP < V0 THEN VKP ELSE V0
  IN  IF V1 < m THEN V1 ELSE m

\* The final V0, VKP, V1 that enter the mixing: the diagonal elements with
\* their soft-gate penalties, and VKP.
FinalV(dia, fp) == <<dia.h00 + fp.g0, FinalVKP(Abs(dia.h01), fp), dia.h11 + fp.g1>>

\* The Boltzmann mixing step on the final V0, VKP, V1 and their shift: the
\* three exponents -beta * (Vi - Vshift), their exponentials and the partition
\* sum.  The potential returns RPMD_internal_potential(q, invM, beta) + Vshift
\* - log(Z) / beta; the two forces return the average of F0, FKP, F1 with the
\* weights e[i] / Z (the nuclear force added to RPMD_internal_force).
\* With a VKP that is not finite the arithmetic is not followed (fin = FALSE).
Mix(V0, VKP, V1, Vshift, beta) ==
  IF ~VKP.fin THEN [NoMix EXCEPT !.V = <<V0, 0, V1>>]
  ELSE
    LET x == <<-beta * (V0 - Vshift), -beta * (VKP.v - Vshift), -beta * (V1 - Vshift)>>
        e == <<Exp(x[1]), Exp(x[2]), Exp(x[3])>>
    IN  [fin |-> TRUE, V |-> <<V0, VKP.v, V1>>, Vshift |-> Vshift,
         x |-> x, e |-> e, Z |-> e[1] + e[2] + e[3]]

\* The statements of the classical path that the three routines repeat word
\* for word: the elements read from children[0]->ham_dia, the regime of VKP,
\* the soft gates and the mixing.  regime and Vshift are the calling
\* routine's own.
Electronic(routine, n_cols, beta, fp, regime, Vshift) ==
  LET dia == ham.children[1].ham_dia
      V0 == dia.h00
      V1 == dia.h11
      K == Abs(dia.h01)
  IN  [NoCall EXCEPT
         !.routine = routine, !.outcome = "returned", !.n_cols = n_cols,
         !.beta = beta, !.fp = fp, !.tested = {Obj(0, 0)}, !.reads = {Obj(1, 0)},
         !.V0 = V0, !.V1 = V1, !.K = K, !.regimeVKP = regime,
         !.gate = Gates(y_aux_var[1]),
         !.mix = Mix(FinalV(dia, fp)[1], FinalV(dia, fp)[2], FinalV(dia, fp)[3],
                     Vshift, beta)]

\* The values fp can carry: the penalties added to V0 and V1, and the final VKP.
FpVals ==
  {[g0 |-> 0, g1 |-> 0, vkp |-> -VOne], [g0 |-> 0, g1 |-> VOne, vkp |-> 2 * VOne],
   [g0 |-> VOne, g1 |-> 0, vkp |-> 2 * VOne], [g0 |-> VOne, g1 |-> VOne, vkp |-> VOne]}

-----------------------------------------------------------------------------
(* kcrpmd_effective_potential *)

kcrpmd_effective_potential(n_cols) ==
  LET size == Len(ham.children)
      name == "kcrpmd_effective_potential"
      tested == {Obj(0, 0)}
  IN
  /\ \/ /\ ham.ham_dia_mem_status = 0
        /\ call' = Exit(name, n_cols, tested,
                        Msg("kcrpmd_effective_potential", "not_allocated"))
     \/ /\ ham.ham_dia_mem_status # 0
        /\ ham.ndia # 2
        /\ call' = Exit(name, n_cols, tested,
                        Msg("kcrpmd_effective_potential", "ndia"))
     \/ /\ ham.ham_dia_mem_status # 0
        /\ ham.ndia = 2
        /\ ClassicalPath(size, n_cols)
        /\ \E beta \in Betas, fp \in FpVals,
              o \in ReadOutcomes(ham.children[1].ham_dia_mem_status # 0) :
             call' =
               IF o = "crash" THEN Crash(name, n_cols, tested, {Obj(1, 0)})
               ELSE LET dia == ham.children[1].ham_dia
                        V == FinalV(dia, fp)
                    IN  Electronic(name, n_cols, beta, fp,
                          RegimeVKP_potential(beta, dia.h00, dia.h11, Abs(dia.h01)),
                          Vshift_potential(V[1], V[2].v, V[3]))
     \/ /\ ham.ham_dia_mem_status # 0
        /\ ham.ndia = 2
        /\ ~ClassicalPath(size, n_cols)
        /\ QuantumPath(size, n_cols)
        /\ call' = Exit(name, n_cols, tested,
                        Msg("kcrpmd_effective_potential", "quantum_nuclei"))
     \/ /\ ham.ham_dia_mem_status # 0
        /\ ham.ndia = 2
        /\ ~ClassicalPath(size, n_cols)
        /\ ~QuantumPath(size, n_cols)
        /\ call' = Exit(name, n_cols, tested, Msg("", "size_mismatch"))
  /\ UNCHANGED <<ham, y_aux_var>>

-----------------------------------------------------------------------------
(* kcrpmd_effective_force *)

\* if(c * abs(beta * K - 1) < 250.)
GuardFA(c, beta, K) == c * Abs(beta * K - KOne) < Limit250 * KOne

\* if(d * abs(beta * K - 1) < 250.)
GuardFC(d, beta, K) == d * Abs(beta * K - KOne) < Limit250 * KOne

\* F0, F1 and FK of one dof: minus the real parts of d1ham_dia[dof].
ForceF0(d1) == -(d1.d00)
ForceF1(d1) == -(d1.d11)
ForceFK(d1) == -(d1.d01)

Cs == {-300, 300}
Ds == {-300, 300}

kcrpmd_effective_force(n_cols) ==
  LET size == Len(ham.children)
      name == "kcrpmd_effective_force"
      tested == {Obj(0, 0)}
      Reads(n_rows) == {Obj(1, 0)} \cup {Obj(1, dof) : dof \in 1..n_rows}
  IN
  /\ \/ /\ ham.ham_dia_mem_status = 0
        /\ call' = Exit(name, n_cols, tested,
                        Msg("kcrpmd_effective_potential", "not_allocated"))
     \/ /\ ham.ham_dia_mem_status # 0
        /\ ham.ndia # 2
        /\ call' = Exit(name, n_cols, tested,
                        Msg("kcrpmd_effective_potential", "ndia"))
     \/ /\ ham.ham_dia_mem_status # 0
        /\ ham.ndia = 2
        /\ ClassicalPath(size, n_cols)
        /\ \E n_rows \in 1..MaxDof, beta \in Betas, c \in Cs, d \in Ds, fp \in FpVals :
           \E o \in ReadOutcomes(/\ ham.children[1].ham_dia_mem_status # 0
                                /\ ham.children[1].d1ham_dia_mem_status # 0) :
             call' =
               IF o = "crash" THEN Crash(name, n_cols, tested, Reads(n_rows))
               ELSE
                 LET ch == ham.children[1]
                     V0 == ch.ham_dia.h00
                     V1 == ch.ham_dia.h11
                     K == Abs(ch.ham_dia.h01)
                     x == beta * K - KOne
                     V == FinalV(ch.ham_dia, fp)
                     el == Electronic(name, n_cols, beta, fp,
                                      RegimeVKP_force(beta, V0, V1, K),
                                      Vshift_force(V[1], V[2].v, V[3]))
                 IN  [el EXCEPT
                        !.n_rows = n_rows, !.c = c, !.d = d, !.reads = Reads(n_rows),
                        !.F0 = [dof \in 1..n_rows |-> ForceF0(ch.d1ham_dia[dof])],
                        !.F1 = [dof \in 1..n_rows |-> ForceF1(ch.d1ham_dia[dof])],
                        !.FK = [dof \in 1..n_rows |-> ForceFK(ch.d1ham_dia[dof])],
                        !.regimeFKP = RegimeFKP_force(beta, V0, V1, K),
                        !.FAupdated = GuardFA(c, beta, K),
                        !.FCdirect = GuardFC(d, beta, K),
                        !.coshArgs =
                          (IF GuardFA(c, beta, K) THEN {-c * x} ELSE {}) \cup
                          (IF GuardFC(d, beta, K) THEN {-d * x} ELSE {})]
     \/ /\ ham.ham_dia_mem_status # 0
        /\ ham.ndia = 2
        /\ ~ClassicalPath(size, n_cols)
        /\ QuantumPath(size, n_cols)
        /\ call' = Exit(name, n_cols, tested,
                        Msg("kcrpmd_effective_potential", "quantum_nuclei"))
     \/ /\ ham.ham_dia_mem_status # 0
        /\ ham.ndia = 2
        /\ ~ClassicalPath(size, n_cols)
        /\ ~QuantumPath(size, n_cols)
        /\ call' = Exit(name, n_cols, tested, Msg("", "size_mismatch"))
  /\ UNCHANGED <<ham, y_aux_var>>

-----------------------------------------------------------------------------
(* kcrpmd_effective_auxiliary_force *)

\* What the three uninitialised doubles F0, FKP, F1 can hold when they are
\* first read: any values; here all zero, or one of them not.
Garbage == {<<0, 0, 0>>, <<1, 0, 0>>, <<0, 1, 0>>, <<0, 0, 1>>}

\* One of F0, FKP, F1 after its "+=": the value the variable held before,
\* plus sign * b * (1 + tanh(b * (absx - 0.5))) / beta, where x = y - m and
\* the sign is -1 if(x > 0.0) and +1 otherwise.
AuxTerm(before, y, m) ==
  [before |-> before,
   sign |-> IF y - m > 0 THEN -1 ELSE 1,
   absx |-> Abs(y - m)]

kcrpmd_effective_auxiliary_force ==
  LET ntraj == Len(ham.children)
      name == "kcrpmd_effective_auxiliary_force"
      tested == {Obj(0, 0)}
      y == y_aux_var[1]
  IN
  /\ \/ /\ ham.ham_dia_mem_status = 0
        /\ call' = Exit(name, 0, tested,
                        Msg("kcrpmd_effective_potential", "not_allocated"))
     \/ /\ ham.ham_dia_mem_status # 0
        /\ ham.ndia # 2
        /\ call' = Exit(name, 0, tested,
                        Msg("kcrpmd_effective_potential", "ndia"))
     \/ /\ ham.ham_dia_mem_status # 0
        /\ ham.ndia = 2
        /\ AuxClassicalPath(ntraj)
        /\ \E beta \in Betas, fp \in FpVals, u \in Garbage,
              o \in ReadOutcomes(ham.children[1].ham_dia_mem_status # 0) :
             call' =
               IF o = "crash" THEN Crash(name, 0, tested, {Obj(1, 0)})
               ELSE
                 LET dia == ham.children[1].ham_dia
                     V == FinalV(dia, fp)
                     el == Electronic(name, 0, beta, fp,
                             RegimeVKP_auxiliary(beta, dia.h00, dia.h11, Abs(dia.h01)),
                             Vshift_auxiliary(V[1], V[2].v, V[3]))
                 IN  [el EXCEPT
                        !.aux = <<AuxTerm(u[1], y, -YOne), AuxTerm(u[2], y, 0),
                                  AuxTerm(u[3], y, YOne)>>]
     \/ /\ ham.ham_dia_mem_status # 0
        /\ ham.ndia = 2
        /\ ~AuxClassicalPath(ntraj)
        /\ call' = Exit(name, 0, tested,
                        Msg("kcrpmd_effective_auxiliary_force", "quantum_nuclei"))
  /\ UNCHANGED <<ham, y_aux_var>>

-----------------------------------------------------------------------------

Init ==
  /\ ham \in Hamiltonians
  /\ y_aux_var \in {<<y>> : y \in Ys}
  /\ call = NoCall

Next ==
  \/ generate_m_matrices
  \/ \E n_cols \in 0..MaxTraj : kcrpmd_effective_potential(n_cols)
  \/ \E n_cols \in 0..MaxTraj : kcrpmd_effective_force(n_cols)
  \/ kcrpmd_effective_auxiliary_force

Spec == Init /\ [][Next]_vars

-----------------------------------------------------------------------------
(* Properties *)

Effective ==
  {"kcrpmd_effective_potential", "kcrpmd_effective_force",
   "kcrpmd_effective_auxiliary_force"}

Returned(routine) == call.routine = routine /\ call.outcome = "returned"

\* The child the classical path reads is fully allocated.
ChildAllocated ==
  /\ Len(ham.children) = 1
  /\ ham.children[1].ham_dia_mem_status # 0
  /\ ham.children[1].d1ham_dia_mem_status # 0

\* The regime as the potential routine is documented to choose it.
C1_Regime(beta, V0, V1, K) ==
  IF beta * K > Thr1e3 THEN "adiabatic"
  ELSE IF beta * Abs(V0 - V1) > Thr1e7 THEN "sinh"
  ELSE "degenerate"

\* C1: for every (V0, V1, K, beta), all three effective routines select the
\* same kinked-pair regime: the regime any of them used for VKP, and the one
\* the force routine used for FKP, is the regime of the potential routine's
\* comparisons (beta*K > 1e-3; else beta*|V0-V1| > 1e-7; else neither) on the
\* elements of children[0]->ham_dia.
C1_SameRegime ==
  (call.routine \in Effective /\ call.outcome = "returned") =>
    LET dia == ham.children[1].ham_dia
        r == C1_Regime(call.beta, dia.h00, dia.h11, Abs(dia.h01))
    IN  /\ call.regimeVKP = r
        /\ call.routine = "kcrpmd_effective_force" => call.regimeFKP = r

\* A force call that took the sinh regime for VKP and for FKP.
C1_Witness ==
  /\ Returned("kcrpmd_effective_force")
  /\ call.regimeVKP = "sinh"
  /\ call.regimeFKP = "sinh"

\* The preconditions as the claim lists them.
C2_PreconditionViolated ==
  \/ ham.ham_dia_mem_status = 0
  \/ ham.ndia # 2
  \/ /\ call.routine \in {"kcrpmd_effective_potential", "kcrpmd_effective_force"}
     /\ ~(Len(ham.children) = 1 /\ call.n_cols = 1)
  \/ /\ call.routine = "kcrpmd_effective_auxiliary_force"
     /\ Len(ham.children) # 1

\* The message of the path the claim names for the failed precondition.
C2_Path ==
  IF ham.ham_dia_mem_status = 0 THEN "not_allocated"
  ELSE IF ham.ndia # 2 THEN "ndia"
  ELSE IF call.routine = "kcrpmd_effective_auxiliary_force" THEN "quantum_nuclei"
  ELSE IF Len(ham.children) = call.n_cols THEN "quantum_nuclei"
  ELSE "size_mismatch"

\* C2: a call of any of the four operations that violates a precondition
\* (matrix not allocated, ndia # 2, and for the effective routines the
\* children / trajectory counts: equal counts other than 1 are the
\* quantum-nuclei path, unequal counts the mismatch path) ends in exit with
\* that path's message; it does not reach the mixing step and returns nothing.
C2_FailsFatally ==
  (call.routine # "none" /\ C2_PreconditionViolated) =>
    /\ call.outcome = "exit"
    /\ call.msg.says = C2_Path
    /\ call.mix = NoMix
    /\ call.M = <<>>
    /\ call.aux = NoAux
    /\ call.reads = {}

\* A force call stopped because children.size() == ntraj but not 1.
C2_Witness ==
  /\ call.routine = "kcrpmd_effective_force"
  /\ call.outcome = "exit"
  /\ ham.ham_dia_mem_status = 1 /\ ham.ndia = 2
  /\ Len(ham.children) = 2 /\ call.n_cols = 2

\* The precondition that failed, as the diagnostic should say it.
C3_Failed ==
  IF ham.ham_dia_mem_status = 0 THEN "not_allocated"
  ELSE IF ham.ndia # 2 THEN "ndia"
  ELSE IF call.routine = "kcrpmd_effective_auxiliary_force" THEN "quantum_nuclei"
  ELSE IF Len(ham.children) = call.n_cols THEN "quantum_nuclei"
  ELSE "size_mismatch"

\* C3: on every precondition failure the diagnostic printed before the exit
\* names the routine that was called and the precondition that failed.
C3_DiagnosticIdentifies ==
  call.outcome = "exit" =>
    /\ call.msg.names = call.routine
    /\ call.msg.says = C3_Failed

\* dK/dq of K = |ham_dia(0,1)| for the dof, by the chain rule.
C4_dKdq(ch, dof) ==
  IF ch.ham_dia.h01 < 0 THEN -(ch.d1ham_dia[dof].d01) ELSE ch.d1ham_dia[dof].d01

\* C4: in kcrpmd_effective_force FK equals -dK/dq for every dof, K being the
\* magnitude of the off-diagonal element, whatever that element's sign.
C4_FKIsMinusGradK ==
  (/\ Returned("kcrpmd_effective_force")
   /\ ChildAllocated
   /\ ham.children[1].ham_dia.h01 # 0) =>
    \A dof \in 1..call.n_rows : call.FK[dof] = -C4_dKdq(ham.children[1], dof)

\* The matrix the claim gives for one bead, bn = beta or beta/children.size().
C5_Matrix(bn, dia) ==
  LET V0 == dia.h00
      V1 == dia.h11
      K == Abs(dia.h01)
      e0 == RatNeg(RatMulInt(bn, V0))
      e1 == RatNeg(RatMulInt(bn, V1))
      k == RatNeg(RatMulInt(bn, K))
  IN  [m00 |-> [coef |-> Rat(KOne, 1), arg |-> e0], m01 |-> [coef |-> k, arg |-> e0],
       m10 |-> [coef |-> k, arg |-> e1], m11 |-> [coef |-> Rat(KOne, 1), arg |-> e1]]

\* C5: generate_m_matrices(beta) returns one matrix per bead (the object
\* itself without children, else child i for the i-th), with
\* M00 = exp(-bn*V0), M11 = exp(-bn*V1), M01 = -bn*K*exp(-bn*V0),
\* M10 = -bn*K*exp(-bn*V1), bn = beta or beta / children.size().
C5_MMatrices ==
  Returned("generate_m_matrices") =>
    LET size == Len(ham.children)
    IN  IF size = 0
        THEN call.M = <<C5_Matrix(Rat(call.beta, 1), ham.ham_dia)>>
        ELSE /\ Len(call.M) = size
             /\ \A i \in 1..size :
                  call.M[i] = C5_Matrix(Rat(call.beta, size), ham.children[i].ham_dia)

\* The spec's example: one bead with V0 = 1, V1 = 2, K = 0.5 and beta = 2 gives
\* e^-2, e^-4, -1 * e^-2 and -1 * e^-4.
C5_Witness ==
  /\ Returned("generate_m_matrices")
  /\ Len(ham.children) = 0
  /\ ham.ham_dia = Dia(VOne, 2 * VOne, 5000)
  /\ call.beta = 2
  /\ call.M = <<[m00 |-> [coef |-> Rat(KOne, 1), arg |-> Rat(-2 * VOne, 1)],
                 m01 |-> [coef |-> Rat(-KOne, 1), arg |-> Rat(-2 * VOne, 1)],
                 m10 |-> [coef |-> Rat(-KOne, 1), arg |-> Rat(-4 * VOne, 1)],
                 m11 |-> [coef |-> Rat(KOne, 1), arg |-> Rat(-4 * VOne, 1)]]>>

\* C6: no call changes the Hamiltonian or y_aux_var, and a call repeated with
\* the same inputs returns the same result as before (stated for calls on
\* allocated matrices).
C6_ReadOnlyAndRepeatable ==
  [][/\ ham' = ham
     /\ y_aux_var' = y_aux_var
     /\ (/\ ChildAllocated
         /\ call.outcome = "returned" /\ call'.outcome = "returned"
         /\ call'.routine = call.routine
         /\ <<call'.n_rows, call'.n_cols, call'.beta, call'.c, call'.d, call'.fp>>
              = <<call.n_rows, call.n_cols, call.beta, call.c, call.d, call.fp>>)
        => call' = call]_vars

\* C7: in the auxiliary force F0, FKP and F1 are exactly
\* -/+ b(1+tanh(b(|x|-0.5)))/beta for x = y+1, y, y-1 (minus when x > 0) with
\* nothing else added, so the result is determined by the inputs.
C7_AuxTermsExact ==
  (Returned("kcrpmd_effective_auxiliary_force") /\ ChildAllocated) =>
    \A i \in 1..3 :
      LET x == y_aux_var[1] - (i - 2) * YOne
      IN  /\ call.aux[i].before = 0
          /\ call.aux[i].sign = (IF x > 0 THEN -1 ELSE 1)
          /\ call.aux[i].absx = Abs(x)

\* C8: FA is updated exactly when |c*(beta*K-1)| < 250, the direct term of FC
\* is added exactly when |d*(beta*K-1)| < 250, for c and d of either sign, and
\* cosh is never evaluated at an argument of magnitude >= 250.
C8_GuardsByMagnitude ==
  (Returned("kcrpmd_effective_force") /\ ChildAllocated /\ call.beta > 0) =>
    LET x == call.beta * call.K - KOne
    IN  /\ call.FAupdated <=> (Abs(call.c * x) < Limit250 * KOne)
        /\ call.FCdirect <=> (Abs(call.d * x) < Limit250 * KOne)
        /\ \A a \in call.coshArgs : Abs(a) < Limit250 * KOne

\* exp(0), the model's 1.0 of a Boltzmann factor.
EOne == Exp(0)

\* C9: in the mixing step, with beta > 0 and finite V0, VKP, V1, Vshift is
\* their minimum, every exponent -beta*(Vi-Vshift) is <= 0 and one is 0, the
\* partition sum lies in [1, 3] and is not zero, and the three weights lie in
\* [0, 1] and sum to 1.
C9_MixingBounds ==
  (call.routine \in Effective /\ call.outcome = "returned"
     /\ call.beta > 0 /\ call.mix.fin) =>
    LET m == call.mix
        Z == m.e[1] + m.e[2] + m.e[3]
    IN  /\ \E i \in 1..3 : m.Vshift = m.V[i]
        /\ \A i \in 1..3 : m.Vshift <= m.V[i]
        /\ \A i \in 1..3 : m.x[i] = -call.beta * (m.V[i] - m.Vshift) /\ m.x[i] <= 0
        /\ \E i \in 1..3 : m.x[i] = 0
        /\ m.Z = Z /\ Z # 0
        /\ EOne <= Z /\ Z <= 3 * EOne
        /\ \A i \in 1..3 : 0 <= m.e[i] /\ m.e[i] <= Z

\* A force call in which VKP is the strict minimum and all three weights are
\* positive.
C9_Witness ==
  /\ Returned("kcrpmd_effective_force")
  /\ call.beta > 0 /\ call.mix.fin
  /\ call.mix.Vshift = call.mix.V[2]
  /\ call.mix.V[2] < call.mix.V[1] /\ call.mix.V[2] < call.mix.V[3]
  /\ \A i \in 1..3 : call.mix.e[i] > 0

\* C10: every matrix a call reads is one whose allocation status the call
\* tested first.
C10_ReadsOnlyTested ==
  call.outcome \in {"returned", "crash"} => call.reads \subseteq call.tested

====
